---- MODULE Spec2Model ----
(***************************************************************************)
(* The QHAPhonopy work chain of aiida-phonopy (workchains/qha.py): one      *)
(* Gruneisen prediction, a fan-out of num_expansions PhononPhonopy          *)
(* sub-processes at linearly spaced pressures, the fan-in of their outputs  *)
(* and the call of the QHA reduction (phonopy_qha / get_qha).               *)
(*                                                                         *)
(* Pressures are exact rationals [num, den]; floating-point rounding of     *)
(* np.linspace is not modelled.                                             *)
(***************************************************************************)
EXTENDS Integers, Sequences, FiniteSets, TLC

VARIABLES
    inputs,          \* self.inputs of the work chain
    pc,              \* position of the work chain in its outline
    exit_status,     \* "running", "finished" or "excepted"
    exception,       \* name of the exception that ended the run, or None
    procs,           \* the sub-processes submitted so far, by pid (1-based)
    ctx,             \* self.ctx: key -> pid
    stress_samples,  \* local of create_unit_cell_expansions
    calcs,           \* local of create_unit_cell_expansions: key -> pid
    arrival,         \* pids in the order in which the sub-processes settled
    qha_input,       \* the arguments of each call of get_qha made so far
    outputs,         \* the outputs published with self.out
    axis_key,        \* key under which PhononPhonopy stores the temperatures
    failure_report,  \* fan-out indices the exception of calculate_qha points at
    internal_retrieve_list,  \* PhonopyCalculation._internal_retrieve_list
    calculations,    \* the PhonopyCalculation instances
    n_calls          \* calls of _create_additional_files made so far

\* the state of the work chain and the state of the calculation plugin
wc_vars == <<inputs, pc, exit_status, exception, procs, ctx, stress_samples,
             calcs, arrival, qha_input, outputs, axis_key, failure_report>>

calc_vars == <<internal_retrieve_list, calculations, n_calls>>

vars == <<wc_vars, calc_vars>>

None == "None"

\* the value a computation returns, or the exception it raises
Ok(v) == [error |-> None, value |-> v]

Err(name) == [error |-> name]

-----------------------------------------------------------------------------
(* Bounds and input domains                                                *)

MaxExpansions == 3

NumExpansionsValues == (0 - 1) .. MaxExpansions

\* stress_range arrays a Gruneisen prediction may return (ascending)
StressRanges == { <<2, 8>>, <<5, 5>>, <<0, 4>>, <<3>> }

\* temperature axes a PhononPhonopy run may report
TemperatureAxes == { <<0, 150>>, <<0, 300>>, <<0>> }

\* spellings of the temperature key in the thermal_properties output
AxisKeys == { "temperture", "temperature" }

-----------------------------------------------------------------------------
(* Numeric helpers                                                          *)

RECURSIVE SeqSum(_)
SeqSum(s) == IF s = << >> THEN 0 ELSE Head(s) + SeqSum(Tail(s))

Last(s) == s[Len(s)]

Rat(n, d) == [num |-> n, den |-> d]

RatEq(a, b) == a.num * b.den = b.num * a.den

RatLeq(a, b) == a.num * b.den <= b.num * a.den

\* np.average(np.diag(m)) of a square matrix given as a sequence of rows
NpDiag(m) == [k \in 1..Len(m) |-> m[k][k]]

NpAverage(s) == Rat(SeqSum(s), Len(s))

\* np.linspace(start, stop, num) with start = start2/2 and stop = stop2/2;
\* a negative num raises ValueError
Linspace(start2, stop2, num) ==
    IF num < 0 THEN Err("ValueError")
    ELSE IF num = 1 THEN Ok(<< Rat(start2, 2) >>)
    ELSE Ok([k \in 1..num |->
            Rat(start2 * (num - 1) + (k - 1) * (stop2 - start2), 2 * (num - 1))])

\* np.array(rows).T : a rectangular list of lists is transposed; a ragged one
\* becomes a one-dimensional object array, which .T leaves as it is
NpTranspose(rows) ==
    IF rows = << >> THEN << >>
    ELSE IF \A k \in 1..Len(rows) : Len(rows[k]) = Len(rows[1])
         THEN [t \in 1..Len(rows[1]) |-> [k \in 1..Len(rows) |-> rows[k][t]]]
         ELSE rows

\* np.array(rows) without transposition
NpArray(rows) == rows

-----------------------------------------------------------------------------
(* Sub-processes                                                            *)

EmptyOut == << >>

Process(workflow, params) ==
    [workflow |-> workflow, params |-> params, state |-> "running",
     out |-> EmptyOut]

\* submit(GruneisenPhonopy, ...) of get_gruneisen_prediction
GruneisenParams(in) ==
    [structure |-> in.structure, ph_settings |-> in.ph_settings,
     es_settings |-> in.es_settings, pressure |-> Rat(0, 1),
     optimize |-> None, use_nac |-> in.use_nac]

\* faulty submission: use_nac is not passed on, so its default applies
PhononParamsDefaultNac(in, stress) ==
    [structure |-> in.structure, ph_settings |-> in.ph_settings,
     es_settings |-> in.es_settings, pressure |-> stress,
     optimize |-> TRUE, use_nac |-> TRUE]

\* submit(PhononPhonopy, ...) of create_unit_cell_expansions
PhononParams(in, stress) ==
    [structure |-> in.structure, ph_settings |-> in.ph_settings,
     es_settings |-> in.es_settings, pressure |-> stress,
     optimize |-> TRUE, use_nac |-> in.use_nac]

\* outputs of a finished GruneisenPhonopy
GruneisenOut(range) == [prediction |-> [stress_range |-> range]]

\* thermal_properties of a finished PhononPhonopy: one value per temperature
ThermalProperties(n, axis, key) ==
    [k \in {"entropy", "free_energy", "heat_capacity", key} |->
        CASE k = "entropy"       -> [t \in 1..Len(axis) |-> axis[t] + n]
          [] k = "free_energy"   -> [t \in 1..Len(axis) |-> 0 - axis[t] - 2 * n]
          [] k = "heat_capacity" -> [t \in 1..Len(axis) |-> 2 * axis[t] + n + 1]
          [] OTHER               -> axis]

\* outputs of a finished PhononPhonopy run at the given pressure
PhononOut(pressure, axis, key) ==
    LET n == pressure.num IN
    [structure |-> [volume |-> 1000 - n],
     optimized_data |->
        [energy |-> n - 500,
         stress |-> << <<n, 1, 0>>, <<1, n + 1, 0>>, <<0, 0, n + 2>> >>],
     thermal_properties |-> ThermalProperties(n, axis, key)]

Settled(p) == p.state # "running"

\* faulty barrier: resumes as soon as one awaited process has settled
AnySettled(pids) == \E pid \in pids : Settled(procs[pid])

\* ToContext: the work chain resumes once every awaited process has settled
AllSettled(pids) == \A pid \in pids : Settled(procs[pid])

-----------------------------------------------------------------------------
(* Pure parts of the work chain                                             *)

\* define: structure, ph_settings and es_settings are required inputs
ValidInputs(in) ==
    /\ in.structure # None
    /\ in.ph_settings # None
    /\ in.es_settings # None

\* faulty read of the prediction: falls back to a default stress range
prediction_or_default(p) ==
    Ok(IF "prediction" \in DOMAIN p.out THEN p.out.prediction
       ELSE [stress_range |-> <<0, 0>>])

\* self.ctx.gruneisen.out.prediction: a process without that output raises
prediction_of(p) ==
    IF "prediction" \in DOMAIN p.out THEN Ok(p.out.prediction)
    ELSE Err("AttributeError")

\* faulty sampling: the stress range is not widened by half its width
StressSamplesUnexpanded(stress_range, num_expansions) ==
    Linspace(2 * stress_range[1], 2 * Last(stress_range), num_expansions)

\* the sampling of create_unit_cell_expansions
StressSamples(stress_range, num_expansions) ==
    LET lo == stress_range[1]
        hi == Last(stress_range)
        stress_delta == hi - lo
    IN  Linspace(2 * lo - stress_delta, 2 * hi + stress_delta, num_expansions)

PhononKey(i) == <<"phonon", i>>

\* faulty range: the last index is left out
KwargKeysShort(n) ==
    {"structure", "output_data", "thermal_properties"} \X (0 .. n - 2)

\* faulty loop: the return sits inside the loop body
LoopDoneAfterFirst(c, samples) ==
    Cardinality(DOMAIN c) >= 1 \/ Len(samples) = 0

\* the loop over enumerate(stress_samples) has run through
LoopDone(c, samples) == Cardinality(DOMAIN c) = Len(samples)

KwargKeys(n) == {"structure", "output_data", "thermal_properties"} \X (0 .. n - 1)

\* self.ctx.get(key) for a key of the context (None for any other key)
CtxGet(c, key) == procs[c[key]]

PhononOutputNames == {"structure", "optimized_data", "thermal_properties"}

\* phonon_i is in the context and has the three outputs calculate_qha reads
HasOutputs(c, i) ==
    /\ PhononKey(i) \in DOMAIN c
    /\ PhononOutputNames \subseteq DOMAIN CtxGet(c, PhononKey(i)).out

\* the loop runs in ascending i: it stops at the least index that raises
FirstIndex(S) == CHOOSE i \in S : \A j \in S : i <= j

\* faulty gathering: a process without outputs is replaced by a default sample
input_qha_default(c, n) ==
    Ok([k \in KwargKeys(n) |->
          LET p == CtxGet(c, PhononKey(k[2]))
              out == IF PhononOutputNames \subseteq DOMAIN p.out THEN p.out
                     ELSE PhononOut(Rat(0, 1), <<0>>, "temperture")
          IN  CASE k[1] = "structure"          -> out.structure
                [] k[1] = "output_data"        -> out.optimized_data
                [] k[1] = "thermal_properties" -> out.thermal_properties])

\* the loop of calculate_qha that fills input_qha; reading an output that a
\* process does not have raises AttributeError
input_qha(c, n) ==
    IF \E i \in 0 .. n - 1 : ~ HasOutputs(c, i)
    THEN [error |-> "AttributeError",
          index |-> FirstIndex({i \in 0 .. n - 1 : ~ HasOutputs(c, i)})]
    ELSE Ok([k \in KwargKeys(n) |->
            LET out == CtxGet(c, PhononKey(k[2])).out IN
            CASE k[1] = "structure"          -> out.structure
              [] k[1] = "output_data"        -> out.optimized_data
              [] k[1] = "thermal_properties" -> out.thermal_properties])

\* phonopy_qha up to its call of get_qha: the arguments of that call, or the
\* exception raised on the way
phonopy_qha(kwargs) ==
    LET n_structures == Cardinality({k \in DOMAIN kwargs : k[1] = "structure"})
        tp(i) == kwargs[<<"thermal_properties", i>>]
        volumes  == [k \in 1..n_structures |-> kwargs[<<"structure", k - 1>>].volume]
        energies == [k \in 1..n_structures |-> kwargs[<<"output_data", k - 1>>].energy]
        stresses == [k \in 1..n_structures |->
                        NpAverage(NpDiag(kwargs[<<"output_data", k - 1>>].stress))]
        entropy     == [k \in 1..n_structures |-> tp(k - 1)["entropy"]]
        free_energy == [k \in 1..n_structures |-> tp(k - 1)["free_energy"]]
        cv          == [k \in 1..n_structures |-> tp(k - 1)["heat_capacity"]]
    IN  IF \E i \in 0 .. n_structures - 1 : "temperture" \notin DOMAIN tp(i)
        THEN Err("KeyError")
        ELSE Ok([eos |-> [volumes |-> volumes, energies |-> energies,
                          stresses |-> stresses],
                 temperature |-> IF n_structures = 0 THEN None
                                 ELSE tp(n_structures - 1)["temperture"],
                 free_energy |-> NpArray(free_energy),
                 cv |-> NpTranspose(cv),
                 entropy |-> NpTranspose(entropy)])

\* what get_qha returns: a mapping from quantity name to array (opaque here)
QhaOutput == [bulk_modulus |-> "array", thermal_expansion |-> "array"]

\* the value phonopy_qha returns: the set literal {'qha_results', qha_results}
phonopy_qha_return(qha_results) ==
    [type |-> "set", members |-> <<"qha_results", qha_results>>]

\* container[key]: only a mapping can be subscripted
GetItem(container, key) ==
    IF container.type = "dict" THEN Ok(container.items[key])
    ELSE Err("TypeError")

-----------------------------------------------------------------------------
(* The calculation plugin (calculations/phonopy/phonopy.py)                 *)

NumCalculations == 2

Calculations == 1 .. NumCalculations

\* the class attribute after the class body: the three output files
ClassRetrieveList ==
    << "projected_dos.dat", "thermal_properties.yaml", "band.yaml" >>

NewCalculation ==
    [called |-> FALSE, given |-> {}, raised |-> None,
     additional_cmdline_params |-> << >>, files |-> {}, inputdict |-> {},
     took_force_sets |-> FALSE]

CalcInit ==
    /\ internal_retrieve_list = ClassRetrieveList
    /\ calculations = [c \in Calculations |-> NewCalculation]
    /\ n_calls = 0

MaxCalls == 3

\* the three optional inputs _create_additional_files pops from inputdict
ForceLinks == {"force_sets", "displacement_dataset", "force_constants"}

\* a successful or failed call: the exception, the flags added to the (reset)
\* command line, the files written and the names added to the retrieve list
CallResult(raised, flags, files, retrieve) ==
    [raised |-> raised, flags |-> flags, files |-> files, retrieve |-> retrieve]

\* faulty selection: the force sets are tried before the force constants
CreateAdditionalFilesSetsFirst(given) ==
    IF {"force_sets", "displacement_dataset"} \subseteq given
    THEN CallResult(None, << "--writefc" >>, {"FORCE_SETS"}, << "FORCE_CONSTANTS" >>)
    ELSE IF "force_constants" \in given
    THEN CallResult(None, << "--readfc" >>, {"FORCE_CONSTANTS"}, << >>)
    ELSE CallResult("InputValidationError", << >>, {}, << >>)

\* the if / elif / else of _create_additional_files for the inputs given
CreateAdditionalFiles(given) ==
    IF "force_constants" \in given
    THEN CallResult(None, << "--readfc" >>, {"FORCE_CONSTANTS"}, << >>)
    ELSE IF {"force_sets", "displacement_dataset"} \subseteq given
    THEN CallResult(None, << "--writefc" >>, {"FORCE_SETS"}, << "FORCE_CONSTANTS" >>)
    ELSE CallResult("InputValidationError", << >>, {}, << >>)

\* self._internal_retrieve_list as calculation c reads it: '+=' extends the
\* list of the class in place and binds the same list to the instance
RetrieveListOf(c) == internal_retrieve_list

\* one call of _create_additional_files on calculation c with a fresh
\* tempfolder; _additional_cmdline_params is reset before the flags are added
create_additional_files ==
    /\ n_calls < MaxCalls
    /\ \E c \in Calculations, given \in SUBSET ForceLinks :
          LET result == CreateAdditionalFiles(given) IN
          /\ calculations' = [calculations EXCEPT ![c] =
                [called |-> TRUE,
                 given |-> given,
                 raised |-> result.raised,
                 additional_cmdline_params |-> << >> \o result.flags,
                 files |-> result.files,
                 inputdict |-> given \ ForceLinks,
                 took_force_sets |-> @.took_force_sets \/ result.retrieve # << >>]]
          /\ internal_retrieve_list' = internal_retrieve_list \o result.retrieve
    /\ n_calls' = n_calls + 1
    /\ UNCHANGED wc_vars

-----------------------------------------------------------------------------
(* The state machine                                                        *)

Init ==
    /\ inputs \in [structure : {"structure", None},
                   ph_settings : {"ph_settings", None},
                   es_settings : {"es_settings", None},
                   num_expansions : NumExpansionsValues,
                   use_nac : BOOLEAN]
    /\ axis_key \in AxisKeys
    /\ pc = "created"
    /\ exit_status = "running"
    /\ exception = None
    /\ procs = << >>
    /\ ctx = << >>
    /\ stress_samples = << >>
    /\ calcs = << >>
    /\ arrival = << >>
    /\ qha_input = << >>
    /\ outputs = << >>
    /\ failure_report = {}
    /\ CalcInit

\* faulty failure handling: the outline is started again after an exception
RaiseAndRetry(name) ==
    /\ pc' = "get_gruneisen_prediction"
    /\ exit_status' = "running"
    /\ exception' = name

\* the step raises: the work chain ends excepted
Raise(name) ==
    /\ pc' = "done"
    /\ exit_status' = "excepted"
    /\ exception' = name

\* the inputs are validated against define when the work chain is created
Launch ==
    /\ pc = "created"
    /\ IF ValidInputs(inputs)
       THEN pc' = "get_gruneisen_prediction"
            /\ UNCHANGED <<exit_status, exception>>
       ELSE Raise("ValueError")
    /\ UNCHANGED <<calc_vars, failure_report, inputs, procs, ctx, stress_samples, calcs, arrival,
                   qha_input, outputs, axis_key>>

get_gruneisen_prediction ==
    /\ pc = "get_gruneisen_prediction"
    /\ procs' = Append(procs, Process("GruneisenPhonopy", GruneisenParams(inputs)))
    /\ ctx' = (<<"gruneisen">> :> (Len(procs) + 1))
    /\ pc' = "wait_gruneisen"
    /\ UNCHANGED <<calc_vars, failure_report, inputs, exit_status, exception, stress_samples, calcs,
                   arrival, qha_input, outputs, axis_key>>

\* the GruneisenPhonopy sub-process ends, with or without its prediction
SettleGruneisen ==
    \E pid \in 1..Len(procs), ok \in BOOLEAN, range \in StressRanges :
        /\ procs[pid].workflow = "GruneisenPhonopy"
        /\ procs[pid].state = "running"
        /\ procs' = [procs EXCEPT ![pid] =
                        IF ok THEN [@ EXCEPT !.state = "finished",
                                             !.out = GruneisenOut(range)]
                        ELSE [@ EXCEPT !.state = "failed"]]
        /\ arrival' = Append(arrival, pid)
        /\ UNCHANGED <<calc_vars, failure_report, inputs, pc, exit_status, exception, ctx, stress_samples,
                       calcs, qha_input, outputs, axis_key>>

\* lines 106-115: read the prediction and plan the stresses
create_unit_cell_expansions ==
    /\ pc = "wait_gruneisen"
    /\ AllSettled({ctx[k] : k \in DOMAIN ctx})
    /\ LET prediction == prediction_of(procs[ctx[<<"gruneisen">>]])
           samples == IF prediction.error # None THEN prediction
                      ELSE StressSamples(prediction.value.stress_range,
                                         inputs.num_expansions)
       IN  IF samples.error # None
           THEN Raise(samples.error) /\ UNCHANGED stress_samples
           ELSE /\ stress_samples' = samples.value
                /\ pc' = "fan_out"
                /\ UNCHANGED <<exit_status, exception>>
    /\ calcs' = << >>
    /\ UNCHANGED <<calc_vars, failure_report, inputs, procs, ctx, arrival, qha_input, outputs, axis_key>>

\* one iteration of the loop of lines 116-128
submit_phonon ==
    /\ pc = "fan_out"
    /\ Cardinality(DOMAIN calcs) < Len(stress_samples)
    /\ LET i == Cardinality(DOMAIN calcs)
           stress == stress_samples[i + 1]
       IN  /\ procs' = Append(procs, Process("PhononPhonopy",
                                             PhononParams(inputs, stress)))
           /\ calcs' = [k \in DOMAIN calcs \cup {PhononKey(i)} |->
                           IF k \in DOMAIN calcs THEN calcs[k] ELSE Len(procs) + 1]
    /\ UNCHANGED <<calc_vars, failure_report, inputs, pc, exit_status, exception, ctx, stress_samples,
                   arrival, qha_input, outputs, axis_key>>

\* line 130: return ToContext(**calcs)
ToContext_calcs ==
    /\ pc = "fan_out"
    /\ LoopDone(calcs, stress_samples)
    /\ ctx' = [k \in DOMAIN ctx \cup DOMAIN calcs |->
                  IF k \in DOMAIN calcs THEN calcs[k] ELSE ctx[k]]
    /\ pc' = "wait_phonons"
    /\ UNCHANGED <<calc_vars, failure_report, inputs, exit_status, exception, procs, stress_samples, calcs,
                   arrival, qha_input, outputs, axis_key>>

\* a PhononPhonopy sub-process ends, with or without its outputs
SettlePhonon ==
    \E pid \in 1..Len(procs), ok \in BOOLEAN, axis \in TemperatureAxes :
        /\ procs[pid].workflow = "PhononPhonopy"
        /\ procs[pid].state = "running"
        /\ procs' = [procs EXCEPT ![pid] =
                        IF ok THEN [@ EXCEPT !.state = "finished",
                                             !.out = PhononOut(procs[pid].params.pressure,
                                                               axis, axis_key)]
                        ELSE [@ EXCEPT !.state = "failed"]]
        /\ arrival' = Append(arrival, pid)
        /\ UNCHANGED <<calc_vars, failure_report, inputs, pc, exit_status, exception, ctx, stress_samples,
                       calcs, qha_input, outputs, axis_key>>

\* lines 133-140 and phonopy_qha up to the call of get_qha
calculate_qha ==
    /\ pc = "wait_phonons"
    /\ AllSettled({ctx[k] : k \in DOMAIN ctx})
    /\ LET kwargs == input_qha(ctx, inputs.num_expansions)
           args == IF kwargs.error # None THEN kwargs
                   ELSE phonopy_qha(kwargs.value)
       IN  IF args.error # None
           THEN /\ Raise(args.error)
                /\ failure_report' = IF kwargs.error # None THEN {kwargs.index}
                                      ELSE failure_report
                /\ UNCHANGED qha_input
           ELSE /\ qha_input' = Append(qha_input, args.value)
                /\ pc' = "get_qha"
                /\ UNCHANGED <<exit_status, exception, failure_report>>
    /\ UNCHANGED <<calc_vars, inputs, procs, ctx, stress_samples, calcs, arrival,
                   outputs, axis_key>>

\* get_qha returns or raises; the rest of phonopy_qha and of calculate_qha
get_qha_returns ==
    /\ pc = "get_qha"
    /\ \E ok \in BOOLEAN :
        IF ~ ok THEN Raise("ReductionError") /\ UNCHANGED outputs
        ELSE LET qha_results == phonopy_qha_return(QhaOutput)
                 published == GetItem(qha_results, "qha_results")
             IN  IF published.error # None
                 THEN Raise(published.error) /\ UNCHANGED outputs
                 ELSE /\ outputs' = [k \in {"qha_results"} |-> published.value]
                      /\ pc' = "done"
                      /\ exit_status' = "finished"
                      /\ UNCHANGED exception
    /\ UNCHANGED <<calc_vars, failure_report, inputs, procs, ctx, stress_samples, calcs, arrival,
                   qha_input, axis_key>>

Next ==
    \/ Launch
    \/ get_gruneisen_prediction
    \/ SettleGruneisen
    \/ create_unit_cell_expansions
    \/ submit_phonon
    \/ ToContext_calcs
    \/ SettlePhonon
    \/ calculate_qha
    \/ get_qha_returns

Spec == Init /\ [][Next]_vars

\* the planning step alone, from every stress range of the bounds below
MaxStress == 8

MaxSamples == 4

PlanRanges ==
    {<<lo, hi>> : lo \in 0..MaxStress, hi \in 0..MaxStress} \cup
    {<<lo>> : lo \in 0..MaxStress}

AscendingRanges == {r \in PlanRanges : r[1] <= Last(r)}

InitPlan ==
    /\ inputs \in [structure : {"structure"},
                   ph_settings : {"ph_settings"},
                   es_settings : {"es_settings"},
                   num_expansions : (0 - 1) .. MaxSamples,
                   use_nac : {TRUE}]
    /\ axis_key = "temperture"
    /\ pc = "wait_gruneisen"
    /\ exit_status = "running"
    /\ exception = None
    /\ \E range \in AscendingRanges :
          procs = << [Process("GruneisenPhonopy", GruneisenParams(inputs))
                        EXCEPT !.state = "finished", !.out = GruneisenOut(range)] >>
    /\ ctx = (<<"gruneisen">> :> 1)
    /\ stress_samples = << >>
    /\ calcs = << >>
    /\ arrival = << 1 >>
    /\ qha_input = << >>
    /\ outputs = << >>
    /\ failure_report = {}
    /\ CalcInit

NextPlan == create_unit_cell_expansions

SpecPlan == InitPlan /\ [][NextPlan]_vars

-----------------------------------------------------------------------------
(* Vocabulary of the properties                                             *)

GruneisenPids == {pid \in 1..Len(procs) : procs[pid].workflow = "GruneisenPhonopy"}

PhononPids == {pid \in 1..Len(procs) : procs[pid].workflow = "PhononPhonopy"}

Failed(pid) == procs[pid].state = "failed"

Finished(pid) == procs[pid].state = "finished"

\* the sub-process submitted with index i (0-based), once it is in the context
Sample(i) == procs[ctx[PhononKey(i)]]

\* the temperatures a finished PhononPhonopy reports, under either spelling
AxisOf(p) == p.out.thermal_properties[axis_key]

NumExpansions == inputs.num_expansions

\* get_qha has been called with the outputs of all N sub-processes
Aggregated == qha_input # << >>

ConsistentAxes ==
    \A i \in 0 .. NumExpansions - 1 : AxisOf(Sample(i)) = AxisOf(Sample(0))

RatSub(a, b) == Rat(a.num * b.den - b.num * a.den, a.den * b.den)

\* M[t][i] is defined and equals column[t] for every temperature t
IsColumn(M, i, column) ==
    /\ Len(M) = Len(column)
    /\ \A t \in 1..Len(column) : Len(M[t]) >= i /\ M[t][i] = column[t]

-----------------------------------------------------------------------------
(* Properties                                                               *)

\* C1 (fan-in barrier): once the work chain has moved past the wait for the
\* fan-out (it is in the reduction or has ended), every submitted PhononPhonopy
\* sub-process has settled, whether it finished or failed.
C1_FanInBarrier ==
    pc \in {"get_qha", "done"} => \A pid \in PhononPids : Settled(procs[pid])

\* C1 witness: a run of three sub-processes in which the first one to settle
\* failed, the other two finished later, and the run has ended.
C1_Witness ==
    /\ pc = "done"
    /\ Cardinality(PhononPids) = 3
    /\ Len(arrival) = 4
    /\ Failed(arrival[2])
    /\ Finished(arrival[3])
    /\ Finished(arrival[4])

\* C2 (order by index), as claimed: entry i of volumes, energies and stresses
\* and column i of each of the three thermal matrices handed to get_qha come
\* from the sub-process submitted with index i at the i-th planned stress,
\* whatever the order in which the sub-processes settled.
C2_OrderByIndex ==
    (Aggregated /\ ConsistentAxes) =>
        \A i \in 1..NumExpansions :
            LET a == qha_input[1]
                p == Sample(i - 1)
            IN  /\ RatEq(p.params.pressure, stress_samples[i])
                /\ Len(a.eos.volumes) = NumExpansions
                /\ a.eos.volumes[i] = p.out.structure.volume
                /\ a.eos.energies[i] = p.out.optimized_data.energy
                /\ a.eos.stresses[i] = NpAverage(NpDiag(p.out.optimized_data.stress))
                /\ IsColumn(a.entropy, i, p.out.thermal_properties["entropy"])
                /\ IsColumn(a.cv, i, p.out.thermal_properties["heat_capacity"])
                /\ IsColumn(a.free_energy, i, p.out.thermal_properties["free_energy"])

\* C3 (no partial QHA): when a fan-out sub-process has failed, get_qha is never
\* called and a run that has ended has ended excepted; whenever get_qha is
\* called, it is called once, on exactly N samples, each the output of a
\* finished sub-process.
C3_NoPartialQHA ==
    /\ (\E pid \in PhononPids : Failed(pid)) =>
          /\ ~ Aggregated
          /\ pc # "get_qha"
          /\ (pc = "done" => exit_status = "excepted")
    /\ Aggregated =>
          /\ Len(qha_input) = 1
          /\ Len(qha_input[1].eos.volumes) = NumExpansions
          /\ \A i \in 0 .. NumExpansions - 1 :
                /\ Finished(ctx[PhononKey(i)])
                /\ qha_input[1].eos.volumes[i + 1] = Sample(i).out.structure.volume

\* C3 witness: a run of three sub-processes, one failed and two finished, has
\* ended with the AttributeError of calculate_qha.
C3_Witness ==
    /\ pc = "done"
    /\ exception = "AttributeError"
    /\ Cardinality(PhononPids) = 3
    /\ Cardinality({pid \in PhononPids : Failed(pid)}) = 1
    /\ Cardinality({pid \in PhononPids : Finished(pid)}) = 2

\* C4 (N = 0 rejection), as claimed: a run with num_expansions = 0 submits no
\* fan-out sub-process, never reaches the aggregation or the reduction, and
\* never finishes successfully.
C4_ZeroExpansionsRejected ==
    NumExpansions = 0 =>
        /\ PhononPids = {}
        /\ ~ Aggregated
        /\ pc # "get_qha"
        /\ exit_status # "finished"

\* C5 (temperature-axis check), as claimed: whenever get_qha is called, the
\* temperature axis it receives is that of the sample of index 0 and every
\* other sample reports the same axis.
C5_TemperatureAxisChecked ==
    (Aggregated /\ NumExpansions >= 1) =>
        /\ qha_input[1].temperature = AxisOf(Sample(0))
        /\ ConsistentAxes

\* the stress range of the prediction and the planned stresses
PredictedRange == procs[ctx[<<"gruneisen">>]].out.prediction.stress_range

RangeLo == PredictedRange[1]

RangeHi == Last(PredictedRange)

RangeDelta == RangeHi - RangeLo

Planned == pc = "fan_out"

EvenlySpacedAscending(samples) ==
    /\ \A k \in 1 .. Len(samples) - 1 : RatLeq(samples[k], samples[k + 1])
    /\ \A k \in 1 .. Len(samples) - 2 :
          RatEq(RatSub(samples[k + 1], samples[k]),
                RatSub(samples[k + 2], samples[k + 1]))

\* C6 (sampling policy), as claimed: for every sampleCount >= 1 the plan has
\* sampleCount stresses, ascending and evenly spaced, the first lo - delta/2
\* and the last hi + delta/2.
C6_SamplingAsClaimed ==
    (Planned /\ NumExpansions >= 1) =>
        /\ Len(stress_samples) = NumExpansions
        /\ EvenlySpacedAscending(stress_samples)
        /\ RatEq(stress_samples[1], Rat(2 * RangeLo - RangeDelta, 2))
        /\ RatEq(Last(stress_samples), Rat(2 * RangeHi + RangeDelta, 2))

\* C6 (sampling policy), amended: for every sampleCount >= 1 the plan has
\* sampleCount stresses, ascending and evenly spaced, the first lo - delta/2;
\* the last is hi + delta/2 when sampleCount >= 2, and with sampleCount = 1 the
\* only stress is lo - delta/2.  Range [2, 8] with 4 samples gives -1, 3, 7, 11
\* and range [5, 5] with 3 samples gives three stresses equal to 5.
C6_SamplingPolicy ==
    (Planned /\ NumExpansions >= 1) =>
        /\ Len(stress_samples) = NumExpansions
        /\ EvenlySpacedAscending(stress_samples)
        /\ RatEq(stress_samples[1], Rat(2 * RangeLo - RangeDelta, 2))
        /\ NumExpansions >= 2 =>
              RatEq(Last(stress_samples), Rat(2 * RangeHi + RangeDelta, 2))
        /\ (PredictedRange = <<2, 8>> /\ NumExpansions = 4) =>
              /\ RatEq(stress_samples[1], Rat(0 - 1, 1))
              /\ RatEq(stress_samples[2], Rat(3, 1))
              /\ RatEq(stress_samples[3], Rat(7, 1))
              /\ RatEq(stress_samples[4], Rat(11, 1))
        /\ (PredictedRange = <<5, 5>> /\ NumExpansions = 3) =>
              \A k \in 1..3 : RatEq(stress_samples[k], Rat(5, 1))

\* C6 witness: the plan for range [2, 8] with 4 samples has been made.
C6_Witness ==
    /\ Planned
    /\ PredictedRange = <<2, 8>>
    /\ NumExpansions = 4
    /\ Len(stress_samples) = 4

\* M has one row per temperature and one column per sample, and M[t][i] is
\* the value of the named quantity of sample i at temperature t
TemperatureMajor(M, quantity) ==
    /\ Len(M) = Len(AxisOf(Sample(0)))
    /\ \A t \in 1..Len(M) :
          /\ Len(M[t]) = NumExpansions
          /\ \A i \in 1..NumExpansions :
                M[t][i] = Sample(i - 1).out.thermal_properties[quantity][t]

\* C7 (transposition), as claimed: the free-energy, entropy and heat-capacity
\* matrices handed to get_qha are all temperature-major (T x N).
C7_Transposition ==
    (Aggregated /\ NumExpansions >= 1 /\ ConsistentAxes) =>
        /\ TemperatureMajor(qha_input[1].entropy, "entropy")
        /\ TemperatureMajor(qha_input[1].cv, "heat_capacity")
        /\ TemperatureMajor(qha_input[1].free_energy, "free_energy")

\* the prediction and all N >= 1 fan-out sub-processes finished, with the
\* temperature axis under the key phonopy_qha reads and equal in all samples
AllSucceeded ==
    /\ \A g \in GruneisenPids : Finished(g)
    /\ NumExpansions >= 1
    /\ \A i \in 0 .. NumExpansions - 1 :
          PhononKey(i) \in DOMAIN ctx /\ Finished(ctx[PhononKey(i)])
    /\ axis_key = "temperture"
    /\ ConsistentAxes

\* C8 (successful completion), as claimed: a run whose sub-processes all
\* succeeded with consistent results and whose reduction did not raise ends
\* finished, with the single output 'qha_results'.
C8_SuccessfulCompletion ==
    (pc = "done" /\ AllSucceeded /\ exception # "ReductionError") =>
        /\ exit_status = "finished"
        /\ DOMAIN outputs = {"qha_results"}

\* the outline of the work chain has been entered
Started == ValidInputs(inputs) /\ pc \notin {"created", "get_gruneisen_prediction"}

\* C9 (prediction precedes fan-out): a started run has submitted exactly one
\* GruneisenPhonopy, at pressure 0 and before every PhononPhonopy; a
\* PhononPhonopy exists only if the prediction finished; after a failed
\* prediction no PhononPhonopy is ever submitted and a run that has ended has
\* ended excepted.
C9_PredictionPrecedesFanOut ==
    /\ Cardinality(GruneisenPids) <= 1
    /\ Started => Cardinality(GruneisenPids) = 1
    /\ \A g \in GruneisenPids :
          /\ RatEq(procs[g].params.pressure, Rat(0, 1))
          /\ \A pid \in PhononPids : g < pid
          /\ PhononPids # {} => Finished(g)
          /\ Failed(g) => PhononPids = {} /\ (pc = "done" => exit_status = "excepted")
    /\ PhononPids # {} => GruneisenPids # {}

\* C9 witness: the prediction failed and the run has ended.
C9_Witness ==
    /\ pc = "done"
    /\ \E g \in GruneisenPids : Failed(g)

\* C10 (configuration errors cost no work), as claimed: a run started with a
\* missing setting or with num_expansions < 1 never submits a sub-process.
C10_ConfigurationErrorsCostNoWork ==
    (~ ValidInputs(inputs) \/ NumExpansions < 1) => procs = << >>

\* the fan-out indices whose sub-process failed
FailedIndices ==
    {i \in 0 .. NumExpansions - 1 :
        PhononKey(i) \in DOMAIN ctx /\ Failed(ctx[PhononKey(i)])}

\* C11 (complete failure report), as claimed: when the run has ended and k >= 1
\* fan-out sub-processes failed, the failure of the run identifies the index
\* of every one of them.
C11_CompleteFailureReport ==
    (pc = "done" /\ FailedIndices # {}) => failure_report = FailedIndices

\* the keys phonon_i of the context
PhononKeys == {k \in DOMAIN ctx : k[1] = "phonon"}

\* C12 (non-blocking fan-out): while the loop has stresses left, the next
\* submission is possible whatever the state of the sub-processes already
\* submitted, and the work chain waits only with all N submitted and stored.
C12_NonBlockingFanOut ==
    /\ (pc = "fan_out" /\ Cardinality(PhononPids) < Len(stress_samples)) =>
          ENABLED submit_phonon
    /\ pc = "wait_phonons" =>
          /\ Cardinality(PhononPids) = NumExpansions
          /\ PhononKeys = {PhononKey(i) : i \in 0 .. NumExpansions - 1}

\* C12 witness: three sub-processes are in flight at once while the work
\* chain waits for them.
C12_Witness ==
    /\ pc = "wait_phonons"
    /\ NumExpansions = 3
    /\ Cardinality({pid \in PhononPids : ~ Settled(procs[pid])}) = 3

\* the stage of the run and its place in the forward order
Stage ==
    CASE pc \in {"created", "get_gruneisen_prediction"} -> "Init"
      [] pc = "wait_gruneisen" -> "Predicting"
      [] pc = "fan_out"        -> "FanningOut"
      [] pc = "wait_phonons"   -> "AwaitingAll"
      [] pc = "get_qha"        -> "Reducing"
      [] pc = "done" -> IF exit_status = "finished" THEN "Published" ELSE "Failed"

StageRank ==
    CASE Stage = "Init"        -> 0
      [] Stage = "Predicting"  -> 1
      [] Stage = "FanningOut"  -> 2
      [] Stage = "AwaitingAll" -> 3
      [] Stage = "Reducing"    -> 4
      [] Stage \in {"Published", "Failed"} -> 5

\* C13 (forward-only stages): every step keeps the stage, moves to the next
\* stage, or ends the run; only the reduction leads to Published; once the run
\* has ended nothing changes any more, and nothing is submitted.
C13_ForwardOnly ==
    [][ /\ StageRank' >= StageRank
        /\ StageRank' > StageRank =>
              \/ StageRank' = StageRank + 1
              \/ Stage' = "Failed"
        /\ pc = "done" => UNCHANGED <<pc, exit_status, exception, procs, ctx, outputs>>
      ]_vars

\* C13 witness: a run of three sub-processes went through every stage and
\* ended in the reduction.
C13_Witness ==
    /\ pc = "done"
    /\ exception = "ReductionError"
    /\ Cardinality(PhononPids) = 3

\* C14 (fixed fan-out width): once the fan-out is complete, the indices with
\* a submitted sub-process are exactly 0 .. N-1, and every array handed to
\* get_qha has one entry per index, N in all.
C14_FixedWidth ==
    /\ (pc \in {"wait_phonons", "get_qha"} \/ (pc = "done" /\ PhononPids # {})) =>
          /\ PhononKeys = {PhononKey(i) : i \in 0 .. NumExpansions - 1}
          /\ {ctx[k] : k \in PhononKeys} = PhononPids
          /\ Cardinality(PhononPids) = NumExpansions
    /\ Aggregated =>
          /\ Len(qha_input[1].eos.volumes) = NumExpansions
          /\ Len(qha_input[1].eos.energies) = NumExpansions
          /\ Len(qha_input[1].eos.stresses) = NumExpansions
          /\ Len(qha_input[1].free_energy) = NumExpansions

\* C14 witness: get_qha has been called for a run of three sub-processes.
C14_Witness == Aggregated /\ NumExpansions = 3

NonNegative(n) == IF n < 0 THEN 0 ELSE n

\* C15 (write-once, no retry): there is at most one prediction and at most
\* one sub-process per index, 1 + N submissions at most; a key of calcs or of
\* the context, once set, keeps its process, and a submitted process keeps
\* its parameters and, once settled, its result.
C15_WriteOnceNoRetry ==
    /\ [](/\ Cardinality(GruneisenPids) <= 1
          /\ Cardinality(PhononPids) <= NonNegative(NumExpansions)
          /\ Len(procs) <= 1 + NonNegative(NumExpansions)
          /\ \A k1 \in DOMAIN calcs, k2 \in DOMAIN calcs :
                calcs[k1] = calcs[k2] => k1 = k2
          /\ \A k \in DOMAIN calcs : k[2] \in 0 .. NumExpansions - 1)
    /\ [][ /\ \A k \in DOMAIN ctx : k \in DOMAIN ctx' /\ ctx'[k] = ctx[k]
           /\ \A k \in DOMAIN calcs : k \in DOMAIN calcs' /\ calcs'[k] = calcs[k]
           /\ \A pid \in 1..Len(procs) :
                 /\ pid <= Len(procs')
                 /\ procs'[pid].params = procs[pid].params
                 /\ Settled(procs[pid]) => procs'[pid] = procs[pid]
         ]_vars

\* C15 witness: a run of three sub-processes, one of which failed, has ended.
C15_Witness ==
    /\ pc = "done"
    /\ Len(procs) = 4
    /\ \E pid \in PhononPids : Failed(pid)

\* C16 (pass-through settings): every PhononPhonopy is submitted with the
\* structure, ph_settings, es_settings and use_nac of the run and with
\* optimize = true; two of them differ at most in their pressure; the inputs
\* of the run never change.
C16_PassThrough ==
    /\ [](/\ \A pid \in PhononPids :
                /\ procs[pid].params.structure = inputs.structure
                /\ procs[pid].params.ph_settings = inputs.ph_settings
                /\ procs[pid].params.es_settings = inputs.es_settings
                /\ procs[pid].params.use_nac = inputs.use_nac
                /\ procs[pid].params.optimize = TRUE
          /\ \A p1 \in PhononPids, p2 \in PhononPids :
                [procs[p1].params EXCEPT !.pressure = procs[p2].params.pressure]
                    = procs[p2].params)
    /\ [][inputs' = inputs]_vars

\* C16 witness: three sub-processes at three different pressures have been
\* submitted in a run with use_nac = false.
C16_Witness ==
    /\ Cardinality(PhononPids) = 3
    /\ inputs.use_nac = FALSE
    /\ Cardinality({procs[pid].params.pressure : pid \in PhononPids}) = 3

-----------------------------------------------------------------------------
(* The calculation plugin on its own                                        *)

InitCalc ==
    /\ inputs = [structure |-> "structure", ph_settings |-> "ph_settings",
                 es_settings |-> "es_settings", num_expansions |-> 1,
                 use_nac |-> TRUE]
    /\ axis_key = "temperture"
    /\ pc = "created"
    /\ exit_status = "running"
    /\ exception = None
    /\ procs = << >>
    /\ ctx = << >>
    /\ stress_samples = << >>
    /\ calcs = << >>
    /\ arrival = << >>
    /\ qha_input = << >>
    /\ outputs = << >>
    /\ failure_report = {}
    /\ CalcInit

NextCalc == create_additional_files

SpecCalc == InitCalc /\ [][NextCalc]_vars

\* C17 (force-input selection): after a call, force_constants given means the
\* FORCE_CONSTANTS file and --readfc, whatever else is given; otherwise
\* force_sets and displacement_dataset both given means the force-sets file
\* and --writefc; otherwise InputValidationError and no file.  After a call
\* that did not raise the additional command-line parameters hold one flag.
C17_ForceInputSelection ==
    \A c \in Calculations :
        LET k == calculations[c] IN
        k.called =>
            /\ "force_constants" \in k.given =>
                  /\ k.raised = None
                  /\ k.files = {"FORCE_CONSTANTS"}
                  /\ k.additional_cmdline_params = << "--readfc" >>
            /\ ("force_constants" \notin k.given
                  /\ {"force_sets", "displacement_dataset"} \subseteq k.given) =>
                  /\ k.raised = None
                  /\ k.files = {"FORCE_SETS"}
                  /\ k.additional_cmdline_params = << "--writefc" >>
            /\ ("force_constants" \notin k.given
                  /\ ~ ({"force_sets", "displacement_dataset"} \subseteq k.given)) =>
                  /\ k.raised = "InputValidationError"
                  /\ k.files = {}
            /\ k.raised = None => Len(k.additional_cmdline_params) = 1

\* C17 witness: a calculation was called a second time, with all three
\* inputs, and wrote the force constants.
C17_Witness ==
    \E c \in Calculations :
        /\ calculations[c].given = ForceLinks
        /\ calculations[c].took_force_sets
        /\ calculations[c].additional_cmdline_params = << "--readfc" >>

Occurrences(list, name) == Cardinality({k \in 1..Len(list) : list[k] = name})

\* C18 (retrieve list does not accumulate), as claimed: the retrieve list a
\* calculation sees holds 'FORCE_CONSTANTS' at most once, and only if that
\* calculation itself took the force-sets branch.
C18_RetrieveListDoesNotAccumulate ==
    \A c \in Calculations :
        /\ Occurrences(RetrieveListOf(c), "FORCE_CONSTANTS") <= 1
        /\ Occurrences(RetrieveListOf(c), "FORCE_CONSTANTS") >= 1 =>
              calculations[c].took_force_sets

====
